---- MODULE Spec2Model ----
(***************************************************************************)
(* Holocron: the LAMB optimizer (holocron/optim/lamb.py) and the trainer   *)
(* utilities freeze_bn, freeze_model and split_normalization_params        *)
(* (holocron/trainer/utils.py).                                            *)
(*                                                                         *)
(* Tensor elements are fixed-point numbers with Scale units per 1.0,       *)
(* extended with the IEEE values inf, -inf and nan that a division by zero *)
(* produces.  Products and quotients are rounded towards zero.             *)
(***************************************************************************)
EXTENDS Integers, Sequences, FiniteSets, TLC

VARIABLES
    ctor_args,     \* the arguments LAMB.__init__ is called with
    status,        \* "none" before __init__, then "ok" or "ValueError"
    param_groups,  \* self.param_groups, built by __init__
    scale_clip,    \* self.scale_clip
    pdata,         \* p.data of every parameter
    grad,          \* p.grad of every parameter
    state,         \* self.state: parameter -> state record, for the parameters that have one
    outcome,       \* how the last step() call ended
    calls,         \* number of step() calls made
    model,         \* the nn.Module tree handed to the trainer utilities
    requires_grad, \* p.requires_grad of every parameter of the model
    track_running_stats, \* m.track_running_stats of every module
    training,      \* m.training of every module
    call,          \* the last trainer-utility call and how it ended
    split          \* what split_normalization_params returned

lambVars == <<ctor_args, status, param_groups, scale_clip, pdata, grad, state, outcome, calls>>

utilVars == <<model, requires_grad, track_running_stats, training, call, split>>

vars == <<lambVars, utilVars>>

(***************************************************************************)
(* Bounds                                                                  *)
(***************************************************************************)
\* fixed-point resolution of a tensor element: Scale units are 1.0
Scale == 100
\* number of step() calls explored
MaxCalls == 2

(***************************************************************************)
(* Floating-point values                                                   *)
(***************************************************************************)
Fin(n) == [k |-> "fin", v |-> n]
Inf(s) == [k |-> "inf", v |-> s]
NaN == [k |-> "nan", v |-> 0]

Abs(n) == IF n < 0 THEN -n ELSE n
Sgn(n) == IF n < 0 THEN -1 ELSE IF n = 0 THEN 0 ELSE 1
TruncDiv(a, b) == Sgn(a) * Sgn(b) * (Abs(a) \div Abs(b))

RECURSIVE SqrtSearch(_, _, _)
SqrtSearch(n, lo, hi) ==
    IF lo >= hi THEN lo
    ELSE LET mid == (lo + hi + 1) \div 2
         IN  IF mid * mid <= n THEN SqrtSearch(n, mid, hi)
             ELSE SqrtSearch(n, lo, mid - 1)

IsZero(a) == a.k = "fin" /\ a.v = 0

\* the largest finite magnitude of the element type; beyond it a result overflows to inf
MaxFloat == 2^15

Round(n) == IF n > MaxFloat THEN Inf(1) ELSE IF n < -MaxFloat THEN Inf(-1) ELSE Fin(n)

FAdd(a, b) ==
    IF a.k = "nan" \/ b.k = "nan" THEN NaN
    ELSE IF a.k = "inf" THEN (IF b.k = "inf" /\ b.v # a.v THEN NaN ELSE a)
    ELSE IF b.k = "inf" THEN b
    ELSE Round(a.v + b.v)

FMul(a, b) ==
    IF a.k = "nan" \/ b.k = "nan" THEN NaN
    ELSE IF a.k = "inf" \/ b.k = "inf"
         THEN (IF IsZero(a) \/ IsZero(b) THEN NaN ELSE Inf(Sgn(a.v) * Sgn(b.v)))
    ELSE Round(TruncDiv(a.v * b.v, Scale))

FDiv(a, b) ==
    IF a.k = "nan" \/ b.k = "nan" THEN NaN
    ELSE IF a.k = "inf"
         THEN (IF b.k = "inf" THEN NaN ELSE Inf(a.v * (IF b.v < 0 THEN -1 ELSE 1)))
    ELSE IF b.k = "inf" THEN Fin(0)
    ELSE IF b.v = 0 THEN (IF a.v = 0 THEN NaN ELSE Inf(Sgn(a.v)))
    ELSE Round(TruncDiv(a.v * Scale, b.v))

FSqrt(a) ==
    IF a.k = "nan" THEN NaN
    ELSE IF a.k = "inf" THEN (IF a.v > 0 THEN a ELSE NaN)
    ELSE IF a.v < 0 THEN NaN
    ELSE Fin(SqrtSearch(a.v * Scale, 0, IF a.v < Scale THEN Scale ELSE a.v))

\* x < y on floats; false when either is nan
FLess(a, b) ==
    IF a.k = "nan" \/ b.k = "nan" THEN FALSE
    ELSE IF a.k = "inf" THEN a.v < 0 /\ ~(b.k = "inf" /\ b.v < 0)
    ELSE IF b.k = "inf" THEN b.v > 0
    ELSE a.v < b.v

\* torch.clamp(x, lo, hi) = min(max(x, lo), hi); nan stays nan
Clamp(x, lo, hi) ==
    IF x.k = "nan" THEN NaN
    ELSE LET up == IF FLess(x, lo) THEN lo ELSE x
         IN  IF FLess(hi, up) THEN hi ELSE up

RECURSIVE SumSeq(_, _)
SumSeq(t, i) == IF i = 0 THEN Fin(0) ELSE FAdd(SumSeq(t, i - 1), t[i])

\* t.pow(2).sum().sqrt()
Norm(t) == FSqrt(SumSeq([i \in 1..Len(t) |-> FMul(t[i], t[i])], Len(t)))

\* torch.zeros_like(t)
Zeros(t) == [i \in 1..Len(t) |-> Fin(0)]

(***************************************************************************)
(* Parameters handed to the optimizer                                      *)
(***************************************************************************)
\* the `params` argument: two parameter groups, in iteration order
ParamGroupsArg == <<<<1, 2>>, <<3>>>>

Params ==
    UNION {{ParamGroupsArg[g][i] : i \in 1..Len(ParamGroupsArg[g])} : g \in 1..Len(ParamGroupsArg)}

\* p.data before the first step: a zero tensor, a small one, one whose norm exceeds the clip
InitData ==
    [p \in Params |->
        CASE p = 1 -> <<Fin(0), Fin(0)>>
          [] p = 2 -> <<Fin(3 * Scale)>>
          [] OTHER -> <<Fin(20 * Scale)>>]

NoGrad == [kind |-> "none", data |-> <<>>]
SparseGrad == [kind |-> "sparse", data |-> <<>>]
Dense(t) == [kind |-> "dense", data |-> t]

\* the gradients backward() may leave on each parameter
GradChoices(p) ==
    {NoGrad, SparseGrad} \cup
    (CASE p = 1 -> {Dense(<<Fin(Scale), Fin(-2 * Scale)>>)}
       [] p = 2 -> {Dense(<<Fin(0)>>), Dense(<<Fin(Scale)>>)}
       [] OTHER -> {Dense(<<Fin(-Scale)>>)})

GradAssignments == {g \in [Params -> UNION {GradChoices(p) : p \in Params}] :
                        \A p \in Params : g[p] \in GradChoices(p)}

None == <<>>

Args(lr, betas, eps, weight_decay, clip) ==
    [lr |-> lr, betas |-> betas, eps |-> eps, weight_decay |-> weight_decay, scale_clip |-> clip]

\* every combination of hyperparameters around the validation boundaries
CtorArgSpace ==
    {Args(lr, <<b1, b2>>, eps, wd, clip) :
        lr \in {-1, 0, Scale \div 10},
        b1 \in {-1, 0, Scale - 1, Scale, Scale + 1},
        b2 \in {-1, 0, Scale - 1, Scale},
        eps \in {-1, 0, 1},
        wd \in {0, Scale \div 10},
        clip \in {None, <<Scale, 5 * Scale>>}}

\* the constructions whose step() behaviour is explored
StepConfigs ==
    { Args(Scale \div 10, <<(9 * Scale) \div 10, (9 * Scale) \div 10>>, 1, 0, None),
      Args(0, <<0, 0>>, 1, 0, None),
      Args(Scale, <<Scale \div 2, 0>>, 0, 0, None),
      Args(Scale \div 2, <<Scale \div 2, Scale \div 2>>, 1, Scale \div 10, <<Scale, 5 * Scale>>),
      Args(-1, <<0, 0>>, 1, 0, None) }

(***************************************************************************)
(* LAMB.__init__                                                           *)
(***************************************************************************)
DefaultClipLo == 0
DefaultClipHi == 10

InvalidArgsLooseBeta(a) ==
    \/ a.lr < 0
    \/ a.eps < 0
    \/ ~(0 <= a.betas[1] /\ a.betas[1] <= Scale)
    \/ ~(0 <= a.betas[2] /\ a.betas[2] <= Scale)

\* the four checks that raise ValueError
InvalidArgs(a) ==
    \/ a.lr < 0
    \/ a.eps < 0
    \/ ~(0 <= a.betas[1] /\ a.betas[1] < Scale)
    \/ ~(0 <= a.betas[2] /\ a.betas[2] < Scale)

\* super().__init__(params, defaults): every group takes the defaults
MakeGroups(a) ==
    [g \in 1..Len(ParamGroupsArg) |->
        [params |-> ParamGroupsArg[g], lr |-> a.lr, betas |-> a.betas,
         eps |-> a.eps, weight_decay |-> a.weight_decay]]

ResolveClip(clip) ==
    IF clip = None THEN <<DefaultClipLo * Scale, DefaultClipHi * Scale>> ELSE clip

Construct ==
    /\ status = "none"
    /\ IF InvalidArgs(ctor_args)
       THEN /\ status' = "ValueError"
            /\ UNCHANGED <<param_groups, scale_clip>>
       ELSE /\ status' = "ok"
            /\ param_groups' = MakeGroups(ctor_args)
            /\ scale_clip' = ResolveClip(ctor_args.scale_clip)
    /\ UNCHANGED <<ctor_args, pdata, grad, state, outcome, calls>>
    /\ UNCHANGED utilVars

(***************************************************************************)
(* LAMB.step                                                               *)
(***************************************************************************)
\* the (group, parameter) pairs in the order the two loops visit them
RECURSIVE Flatten(_, _)
Flatten(groups, g) ==
    IF g > Len(groups) THEN <<>>
    ELSE [i \in 1..Len(groups[g].params) |-> [group |-> g, p |-> groups[g].params[i]]]
         \o Flatten(groups, g + 1)

FreshState(theta) == [step |-> 0, exp_avg |-> Zeros(theta), exp_avg_sq |-> Zeros(theta)]

OldStateAlwaysFresh(st, p, theta) == FreshState(theta)

\* state = self.state[p], initialised when empty
OldState(st, p, theta) == IF p \in DOMAIN st THEN st[p] ELSE FreshState(theta)

\* exp_avg.mul_(beta1).add_(grad, alpha=1 - beta1)
ExpAvg(m, g, beta1) ==
    [i \in 1..Len(g) |-> FAdd(FMul(m[i], Fin(beta1)), FMul(g[i], Fin(Scale - beta1)))]

\* exp_avg_sq.mul_(beta2).addcmul_(grad, grad, value=1 - beta2)
ExpAvgSq(v, g, beta2) ==
    [i \in 1..Len(g) |->
        FAdd(FMul(v[i], Fin(beta2)), FMul(Fin(Scale - beta2), FMul(g[i], g[i])))]

\* update = exp_avg / (sqrt(exp_avg_sq) + eps), plus weight_decay * p.data when set
Update(theta, m, v, group) ==
    [i \in 1..Len(theta) |->
        LET denom == FAdd(FSqrt(v[i]), Fin(group.eps))
            r == FAdd(Fin(0), FDiv(m[i], denom))
        IN  IF group.weight_decay # 0
            THEN FAdd(r, FMul(theta[i], Fin(group.weight_decay)))
            ELSE r]

PhiP(theta, clip) == Clamp(Norm(theta), Fin(clip[1]), Fin(clip[2]))

LocalLrUnguarded(phi_p, update_norm) ==
    IF IsZero(phi_p) THEN Fin(Scale) ELSE FDiv(phi_p, update_norm)

\* the local LR
LocalLr(phi_p, update_norm) ==
    IF IsZero(phi_p) \/ IsZero(update_norm) THEN Fin(Scale) ELSE FDiv(phi_p, update_norm)

\* p.data.add_(update, alpha=-lr * local_lr)
Apply(theta, update, lr, local_lr) ==
    LET alpha == FMul(Fin(-lr), local_lr)
    IN  [i \in 1..Len(theta) |-> FAdd(theta[i], FMul(update[i], alpha))]

WithEntry(st, p, rec) == [q \in DOMAIN st \cup {p} |-> IF q = p THEN rec ELSE st[q]]

\* the body of the inner loop for a parameter with a dense gradient
UpdateParam(group, p, data, st, g, clip) ==
    LET theta == data[p]
        old == OldState(st, p, theta)
        m == ExpAvg(old.exp_avg, g, group.betas[1])
        v == ExpAvgSq(old.exp_avg_sq, g, group.betas[2])
        update == Update(theta, m, v, group)
        local_lr == LocalLr(PhiP(theta, clip), Norm(update))
    IN  [pdata |-> [data EXCEPT ![p] = Apply(theta, update, group.lr, local_lr)],
         state |-> WithEntry(st, p, [step |-> old.step + 1, exp_avg |-> m,
                                     exp_avg_sq |-> v, local_lr |-> local_lr])]

RECURSIVE Loop(_, _, _, _, _, _, _)
Loop(groups, order, i, data, st, g, clip) ==
    IF i > Len(order) THEN [pdata |-> data, state |-> st, raised |-> FALSE]
    ELSE LET p == order[i].p
         IN  IF g[p].kind = "none" THEN Loop(groups, order, i + 1, data, st, g, clip)
             ELSE IF g[p].kind = "sparse"
                  THEN [pdata |-> data, state |-> st, raised |-> TRUE]
             ELSE LET r == UpdateParam(groups[order[i].group], p, data, st, g[p].data, clip)
                  IN  Loop(groups, order, i + 1, r.pdata, r.state, g, clip)

RunStepValidatingFirst(groups, data, st, g, clip) ==
    IF \E p \in Params : g[p].kind = "sparse"
    THEN [pdata |-> data, state |-> st, raised |-> TRUE]
    ELSE Loop(groups, Flatten(groups, 1), 1, data, st, g, clip)

RunStepEagerState(groups, data, st, g, clip) ==
    LET r == Loop(groups, Flatten(groups, 1), 1, data, st, g, clip)
    IN  [r EXCEPT !.state = [q \in Params |->
                                IF q \in DOMAIN r.state THEN r.state[q]
                                ELSE FreshState(data[q]) @@ [local_lr |-> Fin(Scale)]]]

\* the two loops over self.param_groups and group["params"]
RunStep(groups, data, st, g, clip) ==
    Loop(groups, Flatten(groups, 1), 1, data, st, g, clip)

\* step(closure): the closure, when given, recomputes the gradients and the loss
Step(closure) ==
    /\ status = "ok"
    /\ calls < MaxCalls
    /\ \E g \in (IF closure THEN GradAssignments ELSE {grad}) :
          LET r == RunStep(param_groups, pdata, state, g, scale_clip)
          IN  /\ grad' = g
              /\ pdata' = r.pdata
              /\ state' = r.state
              /\ outcome' = IF r.raised THEN "RuntimeError"
                            ELSE IF closure THEN "loss" ELSE "None"
    /\ calls' = calls + 1
    /\ UNCHANGED <<ctor_args, status, param_groups, scale_clip>>
    /\ UNCHANGED utilVars

(***************************************************************************)
(* Specifications of the optimizer                                         *)
(***************************************************************************)
InitLamb(argSpace) ==
    /\ ctor_args \in argSpace
    /\ status = "none"
    /\ param_groups = <<>>
    /\ scale_clip = None
    /\ pdata = InitData
    /\ grad = [p \in Params |-> NoGrad]
    /\ state = <<>>
    /\ outcome = "none"
    /\ calls = 0
    /\ model = <<>>
    /\ requires_grad = <<>>
    /\ track_running_stats = <<>>
    /\ training = <<>>
    /\ call = [op |-> "none"]
    /\ split = [done |-> FALSE]

Init == InitLamb(StepConfigs)

Next ==
    \/ Construct
    \/ \E closure \in BOOLEAN : Step(closure)

Spec == Init /\ [][Next]_vars

InitCtor == InitLamb(CtorArgSpace)

NextCtor == Construct

SpecCtor == InitCtor /\ [][NextCtor]_vars

(***************************************************************************)
(* Properties of the optimizer                                             *)
(***************************************************************************)
\* a transition that is one step() call
StepTaken == calls' = calls + 1

\* position of parameter p in the iteration order of the groups handed to __init__
Pos(p) ==
    LET order == ParamGroupsArg[1] \o ParamGroupsArg[2]
    IN  CHOOSE i \in 1..Len(order) : order[i] = p

\* the parameters the call, run with gradients g, gets to before any sparse gradient
ReachedDense(g) ==
    {p \in Params : /\ g[p].kind = "dense"
                    /\ \A q \in Params : g[q].kind = "sparse" => Pos(p) < Pos(q)}

GroupOf(p) == CHOOSE g \in 1..Len(param_groups) :
                  \E i \in 1..Len(param_groups[g].params) : param_groups[g].params[i] = p

SameEntry(p) ==
    /\ (p \in DOMAIN state') <=> (p \in DOMAIN state)
    /\ p \in DOMAIN state => state'[p] = state[p]

\* C1: in every step() call, a parameter that has no gradient in that call keeps
\* its value, gets no state entry if it had none, and keeps its entry unchanged
\* if it had one.
C1_NoGradSkipped ==
    [][StepTaken =>
        \A p \in Params :
            grad'[p].kind = "none" => SameEntry(p) /\ pdata'[p] = pdata[p]]_vars

\* a second call has skipped parameter 1, which the first call updated, and
\* parameter 2, which never had a state entry
C1_Witness ==
    /\ calls = 2
    /\ outcome = "loss"
    /\ grad[1].kind = "none" /\ 1 \in DOMAIN state /\ state[1].step = 1
    /\ grad[2].kind = "none" /\ 2 \notin DOMAIN state
    /\ 3 \in DOMAIN state /\ state[3].step = 2

\* C2: a step() call that meets a sparse gradient raises; the parameters with a
\* dense gradient that precede the first sparse one keep the update of their
\* value and state, the sparse parameter and all later ones keep their pre-call
\* value and state.
C2_SparseFailsWithoutRollback ==
    [][StepTaken /\ (\E q \in Params : grad'[q].kind = "sparse") =>
        /\ outcome' = "RuntimeError"
        /\ \A p \in Params :
              IF p \in ReachedDense(grad')
              THEN LET r == UpdateParam(param_groups[GroupOf(p)], p, pdata, state,
                                        grad'[p].data, scale_clip)
                   IN  /\ p \in DOMAIN state'
                       /\ state'[p] = r.state[p]
                       /\ state'[p].step =
                              (IF p \in DOMAIN state THEN state[p].step ELSE 0) + 1
                       /\ pdata'[p] = r.pdata[p]
              ELSE SameEntry(p) /\ pdata'[p] = pdata[p]]_vars

\* the first call raised at parameter 2: parameter 1 was updated and moved,
\* parameter 3, which has a dense gradient, was never reached
C2_Witness ==
    /\ calls = 1
    /\ outcome = "RuntimeError"
    /\ grad[1].kind = "dense" /\ 1 \in DOMAIN state /\ state[1].step = 1
    /\ pdata[1] # InitData[1]
    /\ grad[2].kind = "sparse" /\ 2 \notin DOMAIN state
    /\ grad[3].kind = "dense" /\ 3 \notin DOMAIN state /\ pdata[3] = InitData[3]

\* C8: a state entry is created by the first update of a parameter with step 1
\* (0 on creation, plus 1), every later update raises step by exactly 1, and a
\* transition that does not update the parameter neither creates, removes nor
\* changes its counter; no entry exists before the first call.
C8_StepCountsUpdates ==
    /\ DOMAIN state = {}
    /\ [][\A p \in Params :
            IF StepTaken /\ p \in ReachedDense(grad')
            THEN /\ p \in DOMAIN state'
                 /\ state'[p].step = (IF p \in DOMAIN state THEN state[p].step ELSE 0) + 1
            ELSE /\ (p \in DOMAIN state') <=> (p \in DOMAIN state)
                 /\ p \in DOMAIN state => state'[p].step = state[p].step]_vars

\* after two calls: one parameter updated twice, one once, one never
C8_Witness ==
    /\ calls = 2
    /\ \E p, q, r \in Params :
          /\ p \in DOMAIN state /\ state[p].step = 2
          /\ q \in DOMAIN state /\ state[q].step = 1
          /\ r \notin DOMAIN state

\* C9: for every parameter a call updates, with u the update direction computed
\* from the new moments and the pre-call value theta, and phi the clamped norm
\* of theta: local_lr is 1 when phi or |u| is zero and phi / |u| otherwise (the
\* divisor is then not zero), it is what the state stores, and the new value is
\* theta - lr * local_lr * u.
C9_LocalLr ==
    [][StepTaken =>
        \A p \in ReachedDense(grad') :
            LET group == param_groups[GroupOf(p)]
                theta == pdata[p]
                rec == state'[p]
                u == Update(theta, rec.exp_avg, rec.exp_avg_sq, group)
                phi == Clamp(Norm(theta), Fin(scale_clip[1]), Fin(scale_clip[2]))
                un == Norm(u)
            IN  /\ IsZero(phi) \/ IsZero(un) => rec.local_lr = Fin(Scale)
                /\ ~(IsZero(phi) \/ IsZero(un)) =>
                       ~IsZero(un) /\ rec.local_lr = FDiv(phi, un)
                /\ pdata'[p] = [i \in 1..Len(theta) |->
                                   FAdd(theta[i],
                                        FMul(u[i], FMul(Fin(-group.lr), rec.local_lr)))]]_vars

\* one call in which parameter 1 had phi = 0, parameter 2 had a zero update
\* (local_lr 1 in both cases) and parameter 3 took a quotient that moved it
C9_Witness ==
    /\ calls = 1
    /\ DOMAIN state = Params
    /\ grad[1] = Dense(<<Fin(Scale), Fin(-2 * Scale)>>)
    /\ state[1].local_lr = Fin(Scale) /\ pdata[1] # InitData[1]
    /\ grad[2] = Dense(<<Fin(0)>>)
    /\ state[2].local_lr = Fin(Scale) /\ pdata[2] = InitData[2]
    /\ state[3].local_lr.k = "fin" /\ state[3].local_lr # Fin(Scale)
    /\ pdata[3] # InitData[3]

\* C7: __init__ raises ValueError exactly when lr < 0, eps < 0 or a beta is
\* outside [0, 1); otherwise it succeeds, with scale_clip (0.0, 10.0) when none
\* was given and the given pair otherwise.
C7_CtorValidation ==
    status # "none" =>
        LET a == ctor_args
            bad == \/ a.lr < 0
                   \/ a.eps < 0
                   \/ \E i \in {1, 2} : a.betas[i] < 0 \/ a.betas[i] >= Scale
        IN  /\ (status = "ValueError") <=> bad
            /\ (status = "ok") <=> ~bad
            /\ status = "ok" =>
                   scale_clip = (IF a.scale_clip = None THEN <<0, 10 * Scale>>
                                 ELSE a.scale_clip)

\* the boundary values lr = 0, betas = (0, 0), the smallest positive eps, no clip
C7_Witness ==
    /\ status = "ok"
    /\ ctor_args.lr = 0 /\ ctor_args.betas = <<0, 0>> /\ ctor_args.eps = 1
    /\ ctor_args.scale_clip = None
    /\ scale_clip = <<0, 10 * Scale>>

(***************************************************************************)
(* Module trees (torch.nn.Module) for the trainer utilities                *)
(*                                                                         *)
(* A model is the sequence of its modules in modules() order (pre-order,   *)
(* the root first).  A name is a sequence of characters.                   *)
(***************************************************************************)
Mod(parent, name, kind, affine, params) ==
    [parent |-> parent, name |-> name, kind |-> kind, affine |-> affine, params |-> params]

W == <<"w">>
B == <<"b">>

\* what a module of each class owns: (kind, affine, names of its own parameters)
LeafTemplates ==
    { <<"Linear", FALSE, <<W, B>>>>,
      <<"BatchNorm", TRUE, <<W, B>>>>,
      <<"BatchNorm", FALSE, <<>>>>,
      <<"LayerNorm", FALSE, <<W, B>>>> }

RootTemplates ==
    { <<"Sequential", FALSE, <<>>>>,
      <<"Custom", FALSE, <<<<"a", "w">>>>>> }

\* root plus two modules; the third is a child of the root or of the second
ModelShapes ==
    { << Mod(0, <<>>, r[1], r[2], r[3]),
         Mod(1, n2, t2[1], t2[2], t2[3]),
         Mod(par3, n3, t3[1], t3[2], t3[3]) >> :
        r \in RootTemplates,
        t2 \in LeafTemplates \cup {<<"Sequential", FALSE, <<>>>>},
        t3 \in LeafTemplates,
        par3 \in {1, 2},
        n2 \in {<<"a">>, <<"c">>},
        n3 \in {<<"a", "b">>, <<"a">>} }

\* the children of one module have different names
Models == {mods \in ModelShapes : mods[3].parent = 1 => mods[3].name # mods[2].name}

Modules(mods) == 1..Len(mods)

\* module.children(), in registration order
Children(mods, m) == {c \in Modules(mods) : mods[c].parent = m}

FirstChild(mods, m) == CHOOSE c \in Children(mods, m) : \A d \in Children(mods, m) : c <= d

RECURSIVE Descendants(_, _)
\* the module and every module below it
Descendants(mods, m) ==
    {m} \cup UNION {Descendants(mods, c) : c \in Children(mods, m)}

\* identity of the i-th own parameter of module m
ParamId(m, i) == <<m, i>>

ParamIds(mods) ==
    UNION {{ParamId(m, i) : i \in 1..Len(mods[m].params)} : m \in Modules(mods)}

\* module.parameters(recurse=False), in registration order
OwnParams(mods, m) == [i \in 1..Len(mods[m].params) |-> ParamId(m, i)]

RECURSIVE ParamsFrom(_, _, _)
\* the own parameters of the modules from index m on that lie in `within`
ParamsFrom(mods, within, m) ==
    IF m > Len(mods) THEN <<>>
    ELSE (IF m \in within THEN OwnParams(mods, m) ELSE <<>>) \o ParamsFrom(mods, within, m + 1)

\* module.parameters(): own parameters, then those of the modules below, pre-order
AllParams(mods, m) == ParamsFrom(mods, Descendants(mods, m), 1)

RECURSIVE Path(_, _)
\* the dotted name of module m, empty for the root
Path(mods, m) ==
    IF mods[m].parent = 0 THEN <<>>
    ELSE IF mods[mods[m].parent].parent = 0 THEN mods[m].name
    ELSE Path(mods, mods[m].parent) \o <<".">> \o mods[m].name

\* the name model.named_parameters() gives parameter pid
ParamName(mods, pid) ==
    LET local == mods[pid[1]].params[pid[2]]
    IN  IF mods[pid[1]].parent = 0 THEN local ELSE Path(mods, pid[1]) \o <<".">> \o local

\* model.named_parameters(): (name, parameter) in enumeration order
NamedParameters(mods) ==
    LET ps == AllParams(mods, 1)
    IN  [i \in 1..Len(ps) |-> [n |-> ParamName(mods, ps[i]), p |-> ps[i]]]

\* n.startswith(prefix)
StartsWith(n, prefix) == Len(prefix) <= Len(n) /\ SubSeq(n, 1, Len(prefix)) = prefix

\* bool(module): a Sequential defines __len__, so one without children is falsy
Truthy(mods, m) == ~(mods[m].kind = "Sequential" /\ Children(mods, m) = {})

(***************************************************************************)
(* freeze_bn                                                               *)
(***************************************************************************)
FreezableBnIgnoringFlags(mods, flags, m) ==
    mods[m].kind = "BatchNorm" /\ mods[m].affine

\* the condition under which freeze_bn touches module m
FreezableBn(mods, flags, m) ==
    /\ mods[m].kind = "BatchNorm"
    /\ mods[m].affine
    /\ \A i \in 1..Len(AllParams(mods, m)) : ~flags[AllParams(mods, m)[i]]

BnTrackRestoring(mods, flags, track) ==
    [m \in Modules(mods) |-> ~FreezableBn(mods, flags, m)]

\* m.track_running_stats after the loop of freeze_bn
BnTrack(mods, flags, track) ==
    [m \in Modules(mods) |-> IF FreezableBn(mods, flags, m) THEN FALSE ELSE track[m]]

\* m.training after the loop of freeze_bn: m.eval() also reaches the modules below m
BnTraining(mods, flags, train) ==
    [m \in Modules(mods) |->
        IF \E b \in Modules(mods) : FreezableBn(mods, flags, b) /\ m \in Descendants(mods, b)
        THEN FALSE ELSE train[m]]

\* call.op is "none" only while no model has been built
FreezeBn ==
    /\ call.op # "none"
    /\ track_running_stats' = BnTrack(model, requires_grad, track_running_stats)
    /\ training' = BnTraining(model, requires_grad, training)
    /\ call' = [op |-> "freeze_bn", result |-> "ok"]
    /\ UNCHANGED <<model, requires_grad, split>>
    /\ UNCHANGED lambVars

(***************************************************************************)
(* freeze_model                                                            *)
(***************************************************************************)
NoLayer == [some |-> FALSE, s |-> <<>>]
Layer(s) == [some |-> TRUE, s |-> s]

\* the values of last_frozen_layer explored
LayerArgs ==
    {NoLayer} \cup {Layer(s) : s \in {<<>>, <<"a">>, <<"a", "b">>, <<"c">>,
                                      <<"a", ".", "w">>, <<"z">>}}

\* "Unfreeze everything"
Unfreeze(mods, flags) == [p \in ParamIds(mods) |-> TRUE]

FreezeLoopNoBreak(names, prefix, i, reached, flags) ==
    [flags |-> [p \in DOMAIN flags |->
                   IF \E j \in 1..Len(names) :
                         /\ names[j].p = p
                         /\ \/ StartsWith(names[j].n, prefix)
                            \/ \A k \in 1..j : ~StartsWith(names[k].n, prefix)
                   THEN FALSE ELSE flags[p]],
     reached |-> \E j \in 1..Len(names) : StartsWith(names[j].n, prefix)]

FreezeLoopMatchOnly(names, prefix, i, reached, flags) ==
    [flags |-> [p \in DOMAIN flags |->
                   IF \E j \in 1..Len(names) :
                         names[j].p = p /\ StartsWith(names[j].n, prefix)
                   THEN FALSE ELSE flags[p]],
     reached |-> \E j \in 1..Len(names) : StartsWith(names[j].n, prefix)]

RECURSIVE FreezeLoop(_, _, _, _, _)
\* the loop over model.named_parameters(), from its i-th element on
FreezeLoop(names, prefix, i, reached, flags) ==
    IF i > Len(names) THEN [flags |-> flags, reached |-> reached]
    ELSE LET hit == StartsWith(names[i].n, prefix)
             f == IF ~reached \/ hit THEN [flags EXCEPT ![names[i].p] = FALSE] ELSE flags
         IN  IF hit THEN FreezeLoop(names, prefix, i + 1, TRUE, f)
             ELSE IF reached THEN [flags |-> f, reached |-> reached]
             ELSE FreezeLoop(names, prefix, i + 1, reached, f)

FreezeModel(last_frozen_layer, frozen_bn_stat_update) ==
    /\ call.op # "none"
    /\ LET unfrozen == Unfreeze(model, requires_grad)
           r == IF last_frozen_layer.some
                THEN FreezeLoop(NamedParameters(model), last_frozen_layer.s, 1, FALSE, unfrozen)
                ELSE [flags |-> unfrozen, reached |-> TRUE]
           bn == r.reached /\ ~frozen_bn_stat_update
       IN  /\ requires_grad' = r.flags
           /\ track_running_stats' =
                  IF bn THEN BnTrack(model, r.flags, track_running_stats)
                  ELSE track_running_stats
           /\ training' = IF bn THEN BnTraining(model, r.flags, training) ELSE training
           /\ call' = [op |-> "freeze_model", last_frozen_layer |-> last_frozen_layer,
                       frozen_bn_stat_update |-> frozen_bn_stat_update,
                       result |-> IF r.reached THEN "ok" ELSE "ValueError"]
    /\ UNCHANGED <<model, split>>
    /\ UNCHANGED lambVars

(***************************************************************************)
(* split_normalization_params                                              *)
(***************************************************************************)
\* the classes a caller may pass; "int" is not a subclass of nn.Module
ModuleClasses == {"Sequential", "Custom", "Linear", "BatchNorm", "LayerNorm", "GroupNorm"}

DefaultNormClasses == <<"BatchNorm", "LayerNorm", "GroupNorm">>

NormClassArgs == {<<>>, <<"LayerNorm">>, <<"BatchNorm", "int">>}

\* p for p in ps if p.requires_grad
Trainable(ps, flags) == SelectSeq(ps, LAMBDA p : flags[p])

RECURSIVE SplitLoop(_, _, _, _, _, _)
\* the loop over model.modules(), from module m on
SplitLoop(mods, flags, classes, m, norm_params, other_params) ==
    IF m > Len(mods) THEN [norm_params |-> norm_params, other_params |-> other_params]
    ELSE IF Children(mods, m) # {} /\ Truthy(mods, FirstChild(mods, m))
         THEN SplitLoop(mods, flags, classes, m + 1, norm_params,
                        other_params \o Trainable(OwnParams(mods, m), flags))
    ELSE IF \E i \in 1..Len(classes) : classes[i] = mods[m].kind
         THEN SplitLoop(mods, flags, classes, m + 1,
                        norm_params \o Trainable(AllParams(mods, m), flags), other_params)
    ELSE SplitLoop(mods, flags, classes, m + 1, norm_params,
                   other_params \o Trainable(AllParams(mods, m), flags))

SplitNormalizationParams(norm_classes) ==
    /\ call.op # "none"
    /\ ~split.done
    /\ LET classes == IF norm_classes = <<>> THEN DefaultNormClasses ELSE norm_classes
       IN  IF \E i \in 1..Len(classes) : classes[i] \notin ModuleClasses
           THEN split' = [done |-> TRUE, result |-> "ValueError", classes |-> classes,
                          norm_params |-> <<>>, other_params |-> <<>>]
           ELSE LET r == SplitLoop(model, requires_grad, classes, 1, <<>>, <<>>)
                IN  split' = [done |-> TRUE, result |-> "ok", classes |-> classes,
                              norm_params |-> r.norm_params,
                              other_params |-> r.other_params]
    /\ UNCHANGED <<model, requires_grad, track_running_stats, training, call>>
    /\ UNCHANGED lambVars

(***************************************************************************)
(* Specifications of the trainer utilities                                 *)
(***************************************************************************)
\* a freshly built model: every module in training mode and tracking statistics,
\* with any assignment of the trainability flags
InitUtils ==
    /\ model \in Models
    /\ requires_grad \in [ParamIds(model) -> BOOLEAN]
    /\ track_running_stats = [m \in Modules(model) |-> TRUE]
    /\ training = [m \in Modules(model) |-> TRUE]
    /\ call = [op |-> "built"]
    /\ split = [done |-> FALSE]
    /\ ctor_args = Args(0, <<0, 0>>, 0, 0, None)
    /\ status = "none"
    /\ param_groups = <<>>
    /\ scale_clip = None
    /\ pdata = InitData
    /\ grad = [p \in Params |-> NoGrad]
    /\ state = <<>>
    /\ outcome = "none"
    /\ calls = 0

NextFreeze ==
    \/ FreezeBn
    \/ \E l \in LayerArgs, u \in BOOLEAN : FreezeModel(l, u)

SpecFreeze == InitUtils /\ [][NextFreeze]_vars

NextSplit == \E c \in NormClassArgs : SplitNormalizationParams(c)

SpecSplit == InitUtils /\ [][NextSplit]_vars

(***************************************************************************)
(* Properties of the trainer utilities                                     *)
(***************************************************************************)
Names == NamedParameters(model)

\* the positions of the enumeration whose name starts with prefix
Hits(prefix) == {i \in 1..Len(Names) : StartsWith(Names[i].n, prefix)}

\* last position of the first contiguous run of hits
EndOfFirstRun(prefix) ==
    LET first == CHOOSE i \in Hits(prefix) : \A j \in Hits(prefix) : i <= j
    IN  CHOOSE j \in first..Len(Names) :
            /\ \A k \in first..j : k \in Hits(prefix)
            /\ j + 1 \notin Hits(prefix)

FreezeModelCalled == call.op = "freeze_model" /\ call.last_frozen_layer.some

\* C3: freeze_model with a cutoff that matches some name succeeds and leaves
\* exactly the parameters up to the end of the first contiguous run of matching
\* names non-trainable, whatever the flags were before.
C3_FrozenThroughFirstRun ==
    FreezeModelCalled /\ Hits(call.last_frozen_layer.s) # {} =>
        /\ call.result = "ok"
        /\ \A i \in 1..Len(Names) :
              requires_grad[Names[i].p] = (i > EndOfFirstRun(call.last_frozen_layer.s))

\* a matching name, then a name that does not match, then a matching name
\* again that stayed trainable
C3_Witness ==
    /\ FreezeModelCalled /\ call.result = "ok"
    /\ \E i, j, k \in 1..Len(Names) :
          /\ i < j /\ j < k
          /\ {i, k} \subseteq Hits(call.last_frozen_layer.s)
          /\ j \notin Hits(call.last_frozen_layer.s)
          /\ ~requires_grad[Names[i].p]
          /\ requires_grad[Names[j].p] /\ requires_grad[Names[k].p]

\* C4 as stated: a cutoff that matches no name makes freeze_model fail and
\* leaves every parameter trainable.
C4_NotFoundLeavesUnfrozen ==
    FreezeModelCalled /\ Hits(call.last_frozen_layer.s) = {} =>
        /\ call.result = "ValueError"
        /\ \A p \in ParamIds(model) : requires_grad[p]

\* C4, amended: a cutoff that matches no name makes freeze_model fail and
\* leaves every parameter non-trainable.
C4_NotFoundLeavesFrozen ==
    FreezeModelCalled /\ Hits(call.last_frozen_layer.s) = {} =>
        /\ call.result = "ValueError"
        /\ \A p \in ParamIds(model) : ~requires_grad[p]

\* a failed call on a model that has parameters
C4_Witness ==
    /\ FreezeModelCalled /\ call.result = "ValueError"
    /\ call.last_frozen_layer.s = <<"z">>
    /\ Len(Names) >= 3
    /\ \A p \in ParamIds(model) : ~requires_grad[p]

BnLayers == {m \in Modules(model) : model[m].kind = "BatchNorm"}

\* frozen-statistics inference mode
FrozenStats(m) == ~track_running_stats[m] /\ ~training[m]

HasTrainable(m) ==
    \E i \in 1..Len(AllParams(model, m)) : requires_grad[AllParams(model, m)[i]]

\* the last call ran the loop of freeze_bn to its end
BnFreezeRan ==
    \/ call.op = "freeze_bn"
    \/ call.op = "freeze_model" /\ call.result = "ok" /\ ~call.frozen_bn_stat_update

\* C6 as stated: after freeze_bn, or a successful freeze_model that does not keep
\* the statistics live, every batch-normalization layer without a trainable
\* parameter is in frozen-statistics mode.
C6_EveryUntrainableBnFrozen ==
    BnFreezeRan => \A m \in BnLayers : ~HasTrainable(m) => FrozenStats(m)

\* C6, amended: after those calls every affine batch-normalization layer whose
\* parameters are all non-trainable is in frozen-statistics mode, and a layer
\* that enters that mode is affine and has no trainable parameter.
C6_AffineUntrainableBnFrozen ==
    /\ [](BnFreezeRan =>
            \A m \in BnLayers : model[m].affine /\ ~HasTrainable(m) => FrozenStats(m))
    /\ [][\A m \in BnLayers :
            ~FrozenStats(m) /\ FrozenStats(m)' =>
                model[m].affine /\ ~HasTrainable(m)']_vars

\* one layer frozen by the call next to one it left alone because it is trainable
C6_Witness ==
    /\ call.op = "freeze_model" /\ call.result = "ok" /\ ~call.frozen_bn_stat_update
    /\ \E m, n \in BnLayers :
          /\ model[m].affine /\ ~HasTrainable(m) /\ FrozenStats(m)
          /\ HasTrainable(n) /\ ~FrozenStats(n)

\* the flags freeze_model leaves, from the names and the cutoff alone
FlagsFor(l) ==
    [p \in ParamIds(model) |->
        IF ~l.some THEN TRUE
        ELSE IF Hits(l.s) = {} THEN FALSE
        ELSE \E i \in 1..Len(Names) : Names[i].p = p /\ i > EndOfFirstRun(l.s)]

Range(t) == {t[i] : i \in 1..Len(t)}

\* C5: the two collections are disjoint, every parameter that requires gradients
\* is in exactly one, a parameter that does not is in none, and the
\* normalization collection holds exactly the trainable parameters owned by a
\* childless module of a normalization kind.
C5_SplitIsPartition ==
    split.done /\ split.result = "ok" =>
        LET norm == Range(split.norm_params)
            other == Range(split.other_params)
        IN  /\ norm \cap other = {}
            /\ \A p \in ParamIds(model) :
                  /\ requires_grad[p] => p \in norm \cup other
                  /\ ~requires_grad[p] => p \notin norm \cup other
                  /\ p \in norm <=>
                        /\ requires_grad[p]
                        /\ Children(model, p[1]) = {}
                        /\ model[p[1]].kind \in Range(split.classes)

====
